---- MODULE Spec2Model ----
(***************************************************************************)
(* Export-schedule route handlers (GET / POST / PATCH / DELETE of          *)
(* src/app/api/admin/users/exports/schedule/route.ts) as a state machine   *)
(* over the two Prisma tables they touch, exportSchedule and               *)
(* exportScheduleExecution.  Every handler is cut at its awaits on the     *)
(* store, so that concurrent requests interleave exactly where the         *)
(* JavaScript event loop lets them.                                        *)
(***************************************************************************)
EXTENDS Integers, Sequences, FiniteSets, TLC

(***************************************************************************)
(* Bounds of the model and program constants                               *)
(***************************************************************************)
\* Number of request slots (requests that can be in flight at once).
NumProcs == 2

\* Total number of requests that arrive in one behaviour.
MaxRequests == 2

\* Longest recipient address enumerated by the validation specification.
MaxEmailLen == 6

\* route.ts:118  if (existingSchedules >= 20)
MaxSchedules == 20

\* Total number of sweep iterations that start in one behaviour.
MaxFires == 2

Procs == 1..NumProcs

Tenants == {"t1", "t2"}

\* The tenant context resolved by requireTenantContext: one acting user per
\* tenant.
UserOf(t) == IF t = "t1" THEN "u1" ELSE "u2"

\* JavaScript null for the optional numeric columns.
Null == -1

\* The separator "," of the ids query parameter, as a character code that is
\* no row id.
Comma == -2

(***************************************************************************)
(* Recipient addresses: sequences of characters, so that the regular       *)
(* expression of route.ts:108 can be run on them.                          *)
(***************************************************************************)
Alphabet == {"a", "@", ".", " "}

\* The class [^\s@] of the regular expression.
NotSpaceNotAt(c) == c # " " /\ c # "@"

\* One step of the automaton of /^[^\s@]+@[^\s@]+\.[^\s@]+$/ on character c.
\* States: 0 start, 1 inside the first [^\s@]+, 2 after "@", 3 inside the
\* second [^\s@]+, 4 after the literal ".", 5 inside the third [^\s@]+.
RegexStep(S, c) ==
    {1 : q \in {q \in S : q \in {0, 1} /\ NotSpaceNotAt(c)}}
      \cup {2 : q \in {q \in S : q = 1 /\ c = "@"}}
      \cup {3 : q \in {q \in S : q \in {2, 3} /\ NotSpaceNotAt(c)}}
      \cup {4 : q \in {q \in S : q = 3 /\ c = "."}}
      \cup {5 : q \in {q \in S : q \in {4, 5} /\ NotSpaceNotAt(c)}}

RECURSIVE RegexRun(_, _, _)
RegexRun(S, e, i) ==
    IF i > Len(e) THEN S ELSE RegexRun(RegexStep(S, e[i]), e, i + 1)

\* A mutated regular expression, /^[^\s@]+@[^\s@]+\.[^\s@]*$/: the part after
\* the dot may be empty.
EmailRegexTestStar(e) == {4, 5} \cap RegexRun({0}, e, 1) # {}

\* emailRegex.test(email), route.ts:108-109.
EmailRegexTest(e) == 5 \in RegexRun({0}, e, 1)

Good == <<"a", "@", "a", ".", "a">>
Good2 == <<"a", ".", "@", "a", ".", "a">>
NoAt == <<"a", ".", "a">>
NoTld == <<"a", "@", "a", ".">>

(***************************************************************************)
(* Request bodies of POST.  `has` is the set of properties present in the  *)
(* JSON body; an absent property destructures to undefined.                *)
(***************************************************************************)
BaseBody == [has |-> {"name", "frequency", "format", "recipients"},
             name |-> "Report", frequency |-> "daily", format |-> "csv",
             recipients |-> <<Good>>, dayOfWeek |-> Null,
             dayOfMonth |-> Null, isActive |-> TRUE,
             tenantId |-> "", userId |-> ""]

\* The bodies enumerated by Spec and SpecSerial: the base body with one
\* property changed at a time.
Bodies ==
    {BaseBody,
     [BaseBody EXCEPT !.has = @ \ {"name"}],
     [BaseBody EXCEPT !.name = ""],
     [BaseBody EXCEPT !.has = @ \ {"frequency"}],
     [BaseBody EXCEPT !.frequency = "hourly"],
     [BaseBody EXCEPT !.has = @ \ {"format"}],
     [BaseBody EXCEPT !.format = "xml"],
     [BaseBody EXCEPT !.format = "pdf"],
     [BaseBody EXCEPT !.has = @ \ {"recipients"}],
     [BaseBody EXCEPT !.recipients = <<>>],
     [BaseBody EXCEPT !.recipients = <<Good, NoAt>>],
     [BaseBody EXCEPT !.recipients = <<Good, Good2>>],
     [BaseBody EXCEPT !.has = @ \cup {"dayOfWeek"}, !.frequency = "weekly",
                      !.dayOfWeek = 0],
     [BaseBody EXCEPT !.has = @ \cup {"dayOfWeek"}, !.frequency = "weekly",
                      !.dayOfWeek = 3],
     [BaseBody EXCEPT !.has = @ \cup {"dayOfMonth"}, !.frequency = "monthly",
                      !.dayOfMonth = 31],
     [BaseBody EXCEPT !.has = @ \cup {"isActive"}, !.isActive = FALSE],
     [BaseBody EXCEPT !.has = @ \cup {"tenantId", "userId"},
                      !.tenantId = "t2", !.userId = "u2"]}

\* The bodies enumerated where requests interleave.
FewBodies ==
    {BaseBody, [BaseBody EXCEPT !.recipients = <<Good, NoAt>>]}

\* All character strings of length at most n.
Strs(n) == UNION {[1..k -> Alphabet] : k \in 0..n}

\* The bodies enumerated by SpecValidate: every recipient list of one
\* address of length at most MaxEmailLen, and the two-address lists over a
\* few addresses, besides the bodies above.
WideBodies ==
    {[BaseBody EXCEPT !.recipients = <<e>>] : e \in Strs(MaxEmailLen)}
      \cup {[BaseBody EXCEPT !.recipients = <<e, f>>] :
              e \in {Good, Good2, NoAt, NoTld}, f \in {Good, NoTld}}
      \cup Bodies

\* !x for a destructured string property x: undefined or "".
FalsyStr(b, f, v) == f \notin b.has \/ v = ""


(***************************************************************************)
(* The store: rows of exportSchedule and of exportScheduleExecution.       *)
(* Columns the handlers never read or decide on (description, time,        *)
(* emailSubject, emailBody, filterPresetId, updatedAt) are left out.       *)
(***************************************************************************)
VARIABLES schedules, executions, req, started, nextId, clock

vars == <<schedules, executions, req, started, nextId, clock>>

\* A row present in the table before the first request of a behaviour.
SeedRow(i, t) ==
    [id |-> i, tenantId |-> t, userId |-> UserOf(t), name |-> "Report",
     frequency |-> "daily", format |-> "csv", recipients |-> <<Good>>,
     dayOfWeek |-> Null, dayOfMonth |-> Null, isActive |-> (i % 2 = 1),
     createdAt |-> i]

\* Tenant t1 starts with n rows (ids 1..n), tenant t2 with two (101, 102).
SeedSchedules(n) ==
    {SeedRow(i, "t1") : i \in 1..n} \cup {SeedRow(i, "t2") : i \in 101..102}

\* Execution history present at the start: two runs of schedule 1, one of
\* schedule 2, one of schedule 101.
SeedExecutions ==
    {[id |-> 301, scheduleId |-> 1, status |-> "succeeded", completedAt |-> 11],
     [id |-> 302, scheduleId |-> 1, status |-> "failed", completedAt |-> 12],
     [id |-> 303, scheduleId |-> 2, status |-> "succeeded", completedAt |-> 13],
     [id |-> 304, scheduleId |-> 101, status |-> "succeeded",
      completedAt |-> 14]}

\* The id lists a PATCH body carries: ids of the caller's tenant, of the
\* other tenant, of no row (0), and the empty array.
IdLists == {<<>>, <<1>>, <<101>>, <<1, 101>>, <<1, 2>>, <<0>>, <<2, 0>>}

FewIdLists == {<<1, 101>>, <<2, 0>>}

\* The ids query parameter of DELETE as a character string, each id being
\* one character and Comma the separator.  <<>> is ?ids= (the empty string).
IdParams == {<<>>, <<1>>, <<101>>, <<1, Comma, 101>>, <<1, Comma, 2>>, <<0>>,
             <<2, Comma, 0>>}

FewIdParams == {<<>>, <<1, Comma, 101>>, <<2, Comma, 0>>}

\* String.prototype.split(','), route.ts:231.  The result is never empty:
\* the empty string splits into one empty token.
RECURSIVE Split(_)
Split(s) ==
    IF \A i \in 1..Len(s) : s[i] # Comma
    THEN <<s>>
    ELSE LET k == CHOOSE i \in 1..Len(s) :
                      s[i] = Comma /\ \A j \in 1..(i - 1) : s[j] # Comma
         IN  <<SubSeq(s, 1, k - 1)>> \o Split(SubSeq(s, k + 1, Len(s)))

\* searchParams.get('ids')?.split(',') || [], route.ts:231.
ParseIds(present, s) == IF present THEN Split(s) ELSE <<>>

\* The row ids matched by { in: tokens } when the tokens come from the query
\* string: a token matches the row whose id it spells.
TokenIds(tokens) ==
    {tokens[i][1] : i \in {j \in 1..Len(tokens) : Len(tokens[j]) = 1}}

Range(s) == {s[i] : i \in 1..Len(s)}

\* prisma.exportSchedule.count({ where: { tenantId } }), route.ts:114-116.
CountFor(t) == Cardinality({r \in schedules : r.tenantId = t})

\* _count.executions of a schedule, route.ts:32-36.
ExecutionCount(id) == Cardinality({e \in executions : e.scheduleId = id})

\* A mutated ordering, oldest first.
RECURSIVE SortedAsc(_)
SortedAsc(S) ==
    IF S = {} THEN {<<>>}
    ELSE LET lows == {r \in S : \A o \in S : o.createdAt >= r.createdAt}
         IN  UNION {{<<r>> \o l : l \in SortedAsc(S \ {r})} : r \in lows}

\* orderBy: { createdAt: 'desc' }, route.ts:37: every ordering of S by
\* descending createdAt (rows created in the same instant come in any order).
RECURSIVE SortedDesc(_)
SortedDesc(S) ==
    IF S = {} THEN {<<>>}
    ELSE LET tops == {r \in S : \A o \in S : o.createdAt <= r.createdAt}
         IN  UNION {{<<r>> \o l : l \in SortedDesc(S \ {r})} : r \in tops}

\* The listing GET answers with, route.ts:28-45.
Listings(t) ==
    {[i \in 1..Len(l) |-> [row |-> l[i],
                           executionCount |-> ExecutionCount(l[i].id)]] :
       l \in SortedDesc({r \in schedules : r.tenantId = t})}

IdleReq ==
    [op |-> "none", pc |-> "idle", tenantId |-> "t1", userId |-> "u1",
     rlOk |-> TRUE, capable |-> TRUE, calls |-> <<>>, body |-> BaseBody,
     action |-> "", idsKind |-> "absent", scheduleIds |-> <<>>,
     hasParam |-> FALSE, idsParam |-> <<>>, ids |-> <<>>, existing |-> 0,
     result |-> "pending", fault |-> "none", mode |-> "none", count |-> 0,
     list |-> <<>>, preS |-> {}, preE |-> {}, newId |-> 0,
     target |-> 0, execId |-> 0]

Init ==
    /\ \E n \in {MaxSchedules - 1, MaxSchedules} : schedules = SeedSchedules(n)
    /\ executions = SeedExecutions
    /\ req = [p \in Procs |-> IdleReq]
    /\ started = 0
    /\ nextId = 201
    /\ clock = 200


(***************************************************************************)
(* Arrival of a request.  The answers the two external collaborators will  *)
(* give this request (rateLimit, hasPermission) are inputs fixed at        *)
(* arrival; preS and preE remember the tables as the request found them.   *)
(* The body and the query string are inputs read where the handler parses  *)
(* them.                                                                   *)
(***************************************************************************)
\* Arrive in slot p: any handler, either tenant, any answers of the two
\* collaborators.
Arrive(p) ==
    /\ req[p].pc \in {"idle", "done"}
    /\ started < MaxRequests
    /\ \E op \in {"GET", "POST", "PATCH", "DELETE"}, t \in Tenants,
         rl \in BOOLEAN, cap \in BOOLEAN :
          req' = [req EXCEPT ![p] =
                    [IdleReq EXCEPT !.op = op, !.pc = "rate", !.tenantId = t,
                                    !.userId = UserOf(t), !.rlOk = rl,
                                    !.capable = cap, !.preS = schedules,
                                    !.preE = executions]]
    /\ started' = started + 1
    /\ UNCHANGED <<schedules, executions, nextId, clock>>

\* The request of slot p ends with the given result.
Finish(p, result) ==
    req' = [req EXCEPT ![p].pc = "done", ![p].result = result]

\* A store call of slot p throws; the handler's catch answers 500.
Throw(p) ==
    req' = [req EXCEPT ![p].pc = "done", ![p].result = "Internal",
                       ![p].fault = "store"]

(***************************************************************************)
(* Admission, the same in the four handlers.                               *)
(***************************************************************************)
\* A mutated first check: the permission is looked at before the limiter.
RateLimitAfterPermission(p) ==
    /\ req[p].pc = "rate"
    /\ IF ~req[p].capable
       THEN req' = [req EXCEPT ![p].pc = "done", ![p].result = "Forbidden",
                      ![p].calls = Append(@, "hasPermission")]
       ELSE IF ~req[p].rlOk
       THEN req' = [req EXCEPT ![p].pc = "done", ![p].result = "RateLimited",
                      ![p].calls = Append(@, "rateLimit")]
       ELSE req' = [req EXCEPT ![p].pc = "perm",
                      ![p].calls = Append(@, "rateLimit")]
    /\ UNCHANGED <<schedules, executions, started, nextId, clock>>

\* const { success } = await rateLimit(identifier); if (!success) 429.
RateLimit(p) ==
    /\ req[p].pc = "rate"
    /\ IF req[p].rlOk
       THEN req' = [req EXCEPT ![p].pc = "perm",
                      ![p].calls = Append(@, "rateLimit")]
       ELSE req' = [req EXCEPT ![p].pc = "done", ![p].result = "RateLimited",
                      ![p].calls = Append(@, "rateLimit")]
    /\ UNCHANGED <<schedules, executions, started, nextId, clock>>

\* The first statement of each handler after admission.
BodyPc(op) ==
    CASE op = "GET" -> "find"
      [] op = "POST" -> "validate"
      [] op = "PATCH" -> "action"
      [] OTHER -> "ids"

\* const hasAccess = await hasPermission(...); if (!hasAccess) 403.
Permission(p) ==
    /\ req[p].pc = "perm"
    /\ IF req[p].capable
       THEN req' = [req EXCEPT ![p].pc = BodyPc(req[p].op),
                      ![p].calls = Append(@, "hasPermission")]
       ELSE req' = [req EXCEPT ![p].pc = "done", ![p].result = "Forbidden",
                      ![p].calls = Append(@, "hasPermission")]
    /\ UNCHANGED <<schedules, executions, started, nextId, clock>>


(***************************************************************************)
(* GET: list the caller's schedules.                                       *)
(***************************************************************************)
GetFind(p) ==
    /\ req[p].pc = "find"
    /\ \/ Throw(p)
       \/ \E l \in Listings(req[p].tenantId) :
             req' = [req EXCEPT ![p].pc = "done", ![p].result = "Ok",
                                ![p].list = l]
    /\ UNCHANGED <<schedules, executions, started, nextId, clock>>

(***************************************************************************)
(* POST: create a schedule.                                                *)
(***************************************************************************)
\* route.ts:95  !name || !frequency || !format || !recipients ||
\*              recipients.length === 0
MissingRequired(b) ==
    \/ FalsyStr(b, "name", b.name)
    \/ FalsyStr(b, "frequency", b.frequency)
    \/ FalsyStr(b, "format", b.format)
    \/ "recipients" \notin b.has
    \/ Len(b.recipients) = 0

\* route.ts:103  !['csv', 'xlsx', 'json', 'pdf'].includes(format)
InvalidFormat(b) == b.format \notin {"csv", "xlsx", "json", "pdf"}

\* A mutated recipients check: every() in place of some().
InvalidRecipientsEvery(b) ==
    \A i \in 1..Len(b.recipients) : ~EmailRegexTest(b.recipients[i])

\* route.ts:109  recipients.some(email => !emailRegex.test(email))
InvalidRecipients(b) ==
    \E i \in 1..Len(b.recipients) : ~EmailRegexTest(b.recipients[i])

\* A mutated order of checks: the tenant's quota is looked at before the
\* fields of the body.
PostValidateQuotaFirst(p, bodies) ==
    /\ req[p].pc = "validate"
    /\ \E b \in bodies :
          IF Cardinality({r \in schedules : r.tenantId = req[p].tenantId})
                >= MaxSchedules
          THEN req' = [req EXCEPT ![p].pc = "done", ![p].body = b,
                                  ![p].result = "QuotaExceeded"]
          ELSE IF MissingRequired(b) \/ InvalidFormat(b) \/ InvalidRecipients(b)
          THEN req' = [req EXCEPT ![p].pc = "done", ![p].body = b,
                                  ![p].result = "ValidationError"]
          ELSE req' = [req EXCEPT ![p].pc = "count", ![p].body = b]
    /\ UNCHANGED <<schedules, executions, started, nextId, clock>>

\* route.ts:77-111: the body is parsed, then the three checks run in order,
\* each answering 400.
PostValidateWith(p, bodies) ==
    /\ req[p].pc = "validate"
    /\ \E b \in bodies :
          IF MissingRequired(b) \/ InvalidFormat(b) \/ InvalidRecipients(b)
          THEN req' = [req EXCEPT ![p].pc = "done", ![p].body = b,
                                  ![p].result = "ValidationError"]
          ELSE req' = [req EXCEPT ![p].pc = "count", ![p].body = b]
    /\ UNCHANGED <<schedules, executions, started, nextId, clock>>

PostValidate(p) == PostValidateWith(p, Bodies)

PostValidateFew(p) == PostValidateWith(p, FewBodies)

PostValidateWide(p) == PostValidateWith(p, WideBodies)

\* x || null for a numeric property x: undefined and 0 are falsy.
OrNull(b, f, v) == IF f \in b.has /\ v # 0 THEN v ELSE Null

\* A mutated data object: tenantId and userId are taken from the body when
\* it carries them.
NewRowFromBody(p, id) ==
    LET b == req[p].body
    IN  [id |-> id,
         tenantId |-> IF "tenantId" \in b.has THEN b.tenantId
                      ELSE req[p].tenantId,
         userId |-> IF "userId" \in b.has THEN b.userId ELSE req[p].userId,
         name |-> b.name, frequency |-> b.frequency, format |-> b.format,
         recipients |-> b.recipients,
         dayOfWeek |-> IF "dayOfWeek" \in b.has /\ b.dayOfWeek # 0
                       THEN b.dayOfWeek ELSE Null,
         dayOfMonth |-> IF "dayOfMonth" \in b.has /\ b.dayOfMonth # 0
                        THEN b.dayOfMonth ELSE Null,
         isActive |-> IF "isActive" \in b.has THEN b.isActive ELSE TRUE,
         createdAt |-> clock]

\* The data object of route.ts:127-145.  The body's own tenantId, userId or
\* id, if any, are not among the destructured properties (route.ts:78-92).
NewRow(p, id) ==
    LET b == req[p].body
    IN  [id |-> id, tenantId |-> req[p].tenantId, userId |-> req[p].userId,
         name |-> b.name, frequency |-> b.frequency, format |-> b.format,
         recipients |-> b.recipients,
         dayOfWeek |-> OrNull(b, "dayOfWeek", b.dayOfWeek),
         dayOfMonth |-> OrNull(b, "dayOfMonth", b.dayOfMonth),
         isActive |-> IF "isActive" \in b.has THEN b.isActive ELSE TRUE,
         createdAt |-> clock]

\* A mutated limit check: > in place of >=.
QuotaReachedOffByOne(n) == n > MaxSchedules

\* route.ts:118  existingSchedules >= 20
QuotaReached(n) == n >= MaxSchedules

\* A mutated limit check: the row is inserted first and the count read after
\* it, so that a refused request leaves its row behind.
PostCountAfterInsert(p) ==
    /\ req[p].pc = "count"
    /\ LET n == CountFor(req[p].tenantId) + 1
       IN  /\ schedules' = schedules \cup {NewRow(p, nextId)}
           /\ nextId' = nextId + 1
           /\ IF n > MaxSchedules
              THEN req' = [req EXCEPT ![p].pc = "done",
                             ![p].result = "QuotaExceeded", ![p].existing = n]
              ELSE req' = [req EXCEPT ![p].pc = "done", ![p].result = "Ok",
                             ![p].existing = n, ![p].newId = nextId]
    /\ UNCHANGED <<executions, started, clock>>

\* route.ts:113-123: read the tenant's row count, answer 400 at the limit.
PostCount(p) ==
    /\ req[p].pc = "count"
    /\ \/ Throw(p)
       \/ LET n == CountFor(req[p].tenantId)
          IN  IF QuotaReached(n)
              THEN req' = [req EXCEPT ![p].pc = "done",
                             ![p].result = "QuotaExceeded", ![p].existing = n]
              ELSE req' = [req EXCEPT ![p].pc = "create", ![p].existing = n]
    /\ UNCHANGED <<schedules, executions, started, nextId, clock>>

\* route.ts:125-152.  The data object is built first: crypto.getRandomUUID is
\* no method of the Web Crypto interface (which has randomUUID), so on a
\* standard host the call throws and the catch answers 500 before the store
\* is reached; on a host that defines it the call returns a fresh id.  Then
\* prisma.exportSchedule.create inserts the row or throws.  Time may pass
\* between two calls of new Date() or not.
PostCreate(p) ==
    /\ req[p].pc = "create"
    /\ \/ /\ req' = [req EXCEPT ![p].pc = "done", ![p].result = "Internal",
                                ![p].fault = "uuid"]
          /\ UNCHANGED <<schedules, nextId, clock>>
       \/ /\ Throw(p)
          /\ UNCHANGED <<schedules, nextId, clock>>
       \/ /\ schedules' = schedules \cup {NewRow(p, nextId)}
          /\ req' = [req EXCEPT ![p].pc = "done", ![p].result = "Ok",
                                ![p].newId = nextId]
          /\ nextId' = nextId + 1
          /\ clock' \in {clock, clock + 1}
    /\ UNCHANGED <<executions, started>>

(***************************************************************************)
(* PATCH: bulk toggle.                                                     *)
(***************************************************************************)
\* route.ts:185  action === 'toggleActive' && scheduleIds &&
\*               Array.isArray(scheduleIds)
PatchActionWith(p, lists) ==
    /\ req[p].pc = "action"
    /\ \E a \in {"toggleActive", "rename"},
         k \in {"array", "absent", "string"}, l \in lists :
          /\ k # "array" => l = <<>>
          /\ IF a = "toggleActive" /\ k = "array"
             THEN req' = [req EXCEPT ![p].pc = "update", ![p].action = a,
                            ![p].idsKind = k, ![p].scheduleIds = l]
             ELSE req' = [req EXCEPT ![p].pc = "done", ![p].action = a,
                            ![p].idsKind = k, ![p].scheduleIds = l,
                            ![p].result = "InvalidAction"]
    /\ UNCHANGED <<schedules, executions, started, nextId, clock>>

PatchAction(p) == PatchActionWith(p, IdLists)

PatchActionFew(p) == PatchActionWith(p, FewIdLists)

\* where: { id: { in: scheduleIds } }, route.ts:187-189.
PatchWhere(p, r) == r.id \in Range(req[p].scheduleIds)

\* data: { isActive: { not: true } }, route.ts:190-192.  { not: ... } is a
\* filter, not an update operation, and what the store makes of it is not
\* decided by this file: it negates each row's own value ("flip"), writes
\* the value that is not true ("setFalse"), or refuses the query ("reject").
PatchData(mode, r) ==
    CASE mode = "flip" -> [r EXCEPT !.isActive = ~@]
      [] mode = "setFalse" -> [r EXCEPT !.isActive = FALSE]
      [] OTHER -> r

\* A mutated update: each listed row gets the negation of the value it had
\* when the request arrived (read, then write back).
PatchUpdateStale(p) ==
    /\ req[p].pc = "update"
    /\ schedules' =
          {IF PatchWhere(p, r)
           THEN [r EXCEPT !.isActive =
                    ~(CHOOSE o \in req[p].preS : o.id = r.id).isActive]
           ELSE r : r \in schedules}
    /\ req' = [req EXCEPT ![p].pc = "done", ![p].result = "Ok",
                 ![p].mode = "flip",
                 ![p].count =
                    Cardinality({r \in schedules : PatchWhere(p, r)})]
    /\ UNCHANGED <<executions, started, nextId, clock>>

\* route.ts:186-198.
PatchUpdate(p) ==
    /\ req[p].pc = "update"
    /\ \/ /\ Throw(p)
          /\ UNCHANGED schedules
       \/ /\ req' = [req EXCEPT ![p].pc = "done", ![p].result = "Internal",
                                ![p].fault = "data", ![p].mode = "reject"]
          /\ UNCHANGED schedules
       \/ \E mode \in {"flip", "setFalse"} :
             /\ schedules' = {IF PatchWhere(p, r) THEN PatchData(mode, r)
                              ELSE r : r \in schedules}
             /\ req' = [req EXCEPT ![p].pc = "done", ![p].result = "Ok",
                          ![p].mode = mode,
                          ![p].count =
                             Cardinality({r \in schedules : PatchWhere(p, r)})]
    /\ UNCHANGED <<executions, started, nextId, clock>>

(***************************************************************************)
(* DELETE: bulk delete.                                                    *)
(***************************************************************************)
\* route.ts:230-235.
DeleteIdsWith(p, params) ==
    /\ req[p].pc = "ids"
    /\ \E present \in BOOLEAN, s \in params :
          /\ ~present => s = <<>>
          /\ LET ids == ParseIds(present, s)
             IN  IF Len(ids) = 0
                 THEN req' = [req EXCEPT ![p].pc = "done",
                                ![p].hasParam = present, ![p].idsParam = s,
                                ![p].result = "NoIds"]
                 ELSE req' = [req EXCEPT ![p].pc = "delExec",
                                ![p].hasParam = present, ![p].idsParam = s,
                                ![p].ids = ids]
    /\ UNCHANGED <<schedules, executions, started, nextId, clock>>

DeleteIds(p) == DeleteIdsWith(p, IdParams)

DeleteIdsFew(p) == DeleteIdsWith(p, FewIdParams)

\* where: { scheduleId: { in: ids } }, route.ts:239-241.
ExecutionWhere(p, e) == e.scheduleId \in TokenIds(req[p].ids)

\* where: { id: { in: ids } }, route.ts:245-247.
ScheduleWhere(p, r) == r.id \in TokenIds(req[p].ids)

\* A mutated first deletion: the schedule rows go first.
DeleteSchedulesFirst(p) ==
    /\ req[p].pc = "delExec"
    /\ schedules' = {r \in schedules : ~ScheduleWhere(p, r)}
    /\ req' = [req EXCEPT ![p].pc = "delSched"]
    /\ UNCHANGED <<executions, started, nextId, clock>>

\* route.ts:238-242  await prisma.exportScheduleExecution.deleteMany(...)
DeleteExecutions(p) ==
    /\ req[p].pc = "delExec"
    /\ \/ /\ Throw(p)
          /\ UNCHANGED executions
       \/ /\ executions' = {e \in executions : ~ExecutionWhere(p, e)}
          /\ req' = [req EXCEPT ![p].pc = "delSched"]
    /\ UNCHANGED <<schedules, started, nextId, clock>>

\* A mutated second deletion: all or nothing, an id that matches no row makes
\* the request fail with every row kept.
DeleteSchedulesAllOrNothing(p) ==
    /\ req[p].pc = "delSched"
    /\ IF \A id \in TokenIds(req[p].ids) : \E r \in schedules : r.id = id
       THEN /\ schedules' = {r \in schedules : ~ScheduleWhere(p, r)}
            /\ req' = [req EXCEPT ![p].pc = "done", ![p].result = "Ok",
                         ![p].count =
                            Cardinality({r \in schedules : ScheduleWhere(p, r)})]
       ELSE /\ req' = [req EXCEPT ![p].pc = "done", ![p].result = "NotFound"]
            /\ UNCHANGED schedules
    /\ UNCHANGED <<executions, started, nextId, clock>>

\* route.ts:244-254  await prisma.exportSchedule.deleteMany(...)
DeleteSchedules(p) ==
    /\ req[p].pc = "delSched"
    /\ \/ /\ Throw(p)
          /\ UNCHANGED schedules
       \/ /\ schedules' = {r \in schedules : ~ScheduleWhere(p, r)}
          /\ req' = [req EXCEPT ![p].pc = "done", ![p].result = "Ok",
                       ![p].count =
                          Cardinality({r \in schedules : ScheduleWhere(p, r)})]
    /\ UNCHANGED <<executions, started, nextId, clock>>

(***************************************************************************)
(* The background sweep and the Execution Ledger.  No file of the          *)
(* repository fires a schedule or writes an execution row; these           *)
(* definitions follow the specification's sections 3, 4.4, 4.5 and 5.      *)
(* A sweep iteration observes a schedule whose fire time has come, then    *)
(* runs the atomic select-and-mark-pending step, then hands the export to  *)
(* the delivery collaborator, whose answer (or a timeout) is recorded with *)
(* recordResult.  An answer that arrives after the timeout is recorded     *)
(* too.  startedAt, errorDetail and outputFormat are left out.             *)
(***************************************************************************)
\* The schedules whose fire time comes during a behaviour.
DueIds == {1, 101}

\* The schedule has an execution in flight (Active-Pending).
HasPending(id) ==
    \E e \in executions : e.scheduleId = id /\ e.status = "pending"

\* recordStart(scheduleId, format): a new execution, status pending,
\* completedAt null.
RecordStart(id, scheduleId) ==
    [id |-> id, scheduleId |-> scheduleId, status |-> "pending",
     completedAt |-> Null]

\* A mutated transition test: every execution may be transitioned.
CanTransitionAlways(id) == \E e \in executions : e.id = id

\* recordResult transitions pending executions only.
CanTransition(id) == \E e \in executions : e.id = id /\ e.status = "pending"

\* The ledger after recordResult(executionId, outcome) has transitioned the
\* execution.
RecordResult(id, outcome) ==
    {IF e.id = id THEN [e EXCEPT !.status = outcome, !.completedAt = clock]
     ELSE e : e \in executions}

\* tick(now): the iteration of slot p observes an active schedule whose fire
\* time has come.
Tick(p) ==
    /\ req[p].pc \in {"idle", "done"}
    /\ started < MaxFires
    /\ \E r \in schedules :
          /\ r.isActive /\ r.id \in DueIds
          /\ req' = [req EXCEPT ![p] =
                       [IdleReq EXCEPT !.op = "TICK", !.pc = "select",
                                       !.tenantId = r.tenantId,
                                       !.userId = r.userId, !.target = r.id]]
    /\ started' = started + 1
    /\ UNCHANGED <<schedules, executions, nextId, clock>>

\* A mutated selection: the schedule is marked pending without the test.
SelectAndMarkBlind(p) ==
    /\ req[p].pc = "select"
    /\ executions' = executions \cup {RecordStart(nextId, req[p].target)}
    /\ nextId' = nextId + 1
    /\ req' = [req EXCEPT ![p].pc = "deliver", ![p].execId = nextId]
    /\ UNCHANGED <<schedules, started, clock>>

\* The atomic "select due and mark pending" step (test-and-set): a schedule
\* already Active-Pending is skipped.
SelectAndMark(p) ==
    /\ req[p].pc = "select"
    /\ IF HasPending(req[p].target)
       THEN /\ req' = [req EXCEPT ![p].pc = "done", ![p].result = "Skipped"]
            /\ UNCHANGED <<executions, nextId>>
       ELSE /\ executions' = executions \cup
                               {RecordStart(nextId, req[p].target)}
            /\ nextId' = nextId + 1
            /\ req' = [req EXCEPT ![p].pc = "deliver", ![p].execId = nextId]
    /\ UNCHANGED <<schedules, started, clock>>

\* recordResult(executionId, outcome) called by the iteration of slot p,
\* which then goes on at pc.
Record(p, outcome, pc) ==
    IF CanTransition(req[p].execId)
    THEN /\ executions' = RecordResult(req[p].execId, outcome)
         /\ req' = [req EXCEPT ![p].pc = pc,
                      ![p].result = IF pc = "done" THEN "Ok" ELSE @]
    ELSE /\ req' = [req EXCEPT ![p].pc = "done",
                      ![p].result = "InvalidStateTransition"]
         /\ UNCHANGED executions

\* The delivery collaborator answers in time, with success or failure.
Deliver(p) ==
    /\ req[p].pc = "deliver"
    /\ \E outcome \in {"succeeded", "failed"} : Record(p, outcome, "done")
    /\ UNCHANGED <<schedules, started, nextId, clock>>

\* The delivery times out: the execution is recorded failed; the
\* collaborator's answer is still to come.
Timeout(p) ==
    /\ req[p].pc = "deliver"
    /\ Record(p, "failed", "late")
    /\ UNCHANGED <<schedules, started, nextId, clock>>

\* The collaborator's answer arrives after the timeout was recorded.
LateAnswer(p) ==
    /\ req[p].pc = "late"
    /\ \E outcome \in {"succeeded", "failed"} : Record(p, outcome, "done")
    /\ UNCHANGED <<schedules, started, nextId, clock>>

(***************************************************************************)
(* Specifications                                                          *)
(***************************************************************************)
\* The steps that read no request input.
Step(p) ==
    \/ RateLimit(p)
    \/ Permission(p)
    \/ GetFind(p)
    \/ PostCount(p)
    \/ PostCreate(p)
    \/ PatchUpdate(p)
    \/ DeleteExecutions(p)
    \/ DeleteSchedules(p)

\* Requests arrive in any free slot and their steps interleave; the request
\* inputs range over the few bodies and id lists.
Next ==
    \E p \in Procs :
       \/ Arrive(p)
       \/ Step(p)
       \/ PostValidateFew(p)
       \/ PatchActionFew(p)
       \/ DeleteIdsFew(p)

Spec == Init /\ [][Next]_vars

\* Requests are handled one at a time (a single slot); the request inputs
\* range over all the bodies and id lists.
NextSerial ==
    \/ Arrive(1)
    \/ Step(1)
    \/ PostValidate(1)
    \/ PatchAction(1)
    \/ DeleteIds(1)

SpecSerial == Init /\ [][NextSerial]_vars

\* The first request of a behaviour.
ArriveFirst(p) == started = 0 /\ Arrive(p)

\* A single request, the create requests ranging over every short recipient
\* address.
NextValidate ==
    \/ ArriveFirst(1)
    \/ Step(1)
    \/ PostValidateWide(1)
    \/ PatchActionFew(1)
    \/ DeleteIdsFew(1)

SpecValidate == Init /\ [][NextValidate]_vars

\* One of two bulk requests arrives.
ArriveBulk(p) ==
    /\ started < 2
    /\ Arrive(p)
    /\ req'[p].op \in {"PATCH", "DELETE"}

\* Two bulk requests (PATCH, DELETE), their steps interleaved.
NextBulk ==
    \E p \in Procs :
       \/ ArriveBulk(p)
       \/ RateLimit(p)
       \/ Permission(p)
       \/ PatchAction(p)
       \/ PatchUpdate(p)
       \/ DeleteIds(p)
       \/ DeleteExecutions(p)
       \/ DeleteSchedules(p)

SpecBulk == Init /\ [][NextBulk]_vars

\* Sweep iterations only, running concurrently in the slots.
NextSweep ==
    \E p \in Procs :
       \/ Tick(p)
       \/ SelectAndMark(p)
       \/ Deliver(p)
       \/ Timeout(p)
       \/ LateAnswer(p)

SpecSweep == Init /\ [][NextSweep]_vars


(***************************************************************************)
(* Properties                                                              *)
(***************************************************************************)
RowsOf(S, t) == {r \in S : r.tenantId = t}

Denied == {"RateLimited", "Forbidden", "QuotaExceeded"}

\* C1: handled one at a time, create, bulk toggle and bulk delete requests
\* never leave a tenant with more than 20 schedule rows.
C1_AtMostTwentyPerTenant == \A t \in Tenants : CountFor(t) <= MaxSchedules

\* A create request has just filled its tenant up to the limit.
C1_Witness ==
    \E p \in Procs :
       /\ req[p].op = "POST" /\ req[p].result = "Ok"
       /\ req[p].existing = MaxSchedules - 1
       /\ CountFor(req[p].tenantId) = MaxSchedules

\* C2: with create requests of one tenant interleaved between their count
\* and their insert, no tenant ever exceeds 20 schedule rows.
C2_CapUnderConcurrency ==
    \A t \in Tenants : ~(Cardinality(RowsOf(schedules, t)) > MaxSchedules)

\* C3: a create request that passed admission and validation and met no store
\* error succeeds and adds exactly one row when its tenant had 19 rows, and
\* is refused with QuotaExceeded, adding none, when its tenant had 20; rows
\* of other tenants do not count.
C3_TwentiethSucceeds ==
    \A p \in Procs :
       LET r == req[p]
           had == Cardinality(RowsOf(r.preS, r.tenantId))
       IN  (/\ r.op = "POST" /\ r.pc = "done"
            /\ r.result \notin {"RateLimited", "Forbidden", "ValidationError"}
            /\ r.fault # "store")
           => /\ had = MaxSchedules - 1 =>
                   /\ r.result = "Ok"
                   /\ \E row \in schedules :
                         /\ row \notin r.preS
                         /\ row.tenantId = r.tenantId
                         /\ schedules = r.preS \cup {row}
              /\ had = MaxSchedules =>
                   r.result = "QuotaExceeded" /\ schedules = r.preS

\* C4: a bulk toggle by a caller of tenant T leaves every schedule row of
\* every other tenant exactly as it was, whatever ids it lists.
C4_ToggleStaysInTenant ==
    \A p \in Procs :
       req[p].op = "PATCH" =>
          \A r \in req[p].preS :
             r.tenantId # req[p].tenantId => r \in schedules

\* C5: a bulk delete by a caller of tenant T removes no schedule row of
\* another tenant and no execution row of such a schedule, and deletedCount
\* counts the caller's own rows only.
C5_DeleteStaysInTenant ==
    \A p \in Procs :
       LET r == req[p]
           foreign == {s \in r.preS : s.tenantId # r.tenantId}
       IN  r.op = "DELETE" =>
              /\ \A s \in foreign : s \in schedules
              /\ \A e \in r.preE :
                    (\E s \in foreign : s.id = e.scheduleId) => e \in executions
              /\ (r.pc = "done" /\ r.result = "Ok") =>
                    r.count = Cardinality({s \in RowsOf(r.preS, r.tenantId) :
                                             s.id \in TokenIds(r.ids)})

\* C6: every execution row references a schedule row that exists, in every
\* state, the one between the two deletions of a bulk delete included.
C6_NoOrphanExecution ==
    \A e \in executions : \E r \in schedules : r.id = e.scheduleId

\* A bulk delete stands between its two deletions: the executions of a listed
\* schedule are gone and the schedule row is still there.
C6_Witness ==
    \E p \in Procs :
       /\ req[p].pc = "delSched"
       /\ \E r \in schedules :
             /\ ScheduleWhere(p, r)
             /\ \E e \in req[p].preE : e.scheduleId = r.id
             /\ ~\E e \in executions : e.scheduleId = r.id

\* C7: after a bulk delete, ended well or by a store error, every schedule
\* that still exists has all the execution rows it had before the request.
C7_ExecutionsGoOnlyWithSchedule ==
    \A p \in Procs :
       (req[p].op = "DELETE" /\ req[p].pc = "done") =>
          \A e \in req[p].preE :
             (\E r \in schedules : r.id = e.scheduleId) => e \in executions

\* C8: in each of the four handlers the rate limiter is asked first and its
\* denial answers RateLimited whatever the caller's capability; the
\* capability is asked only after the limiter allowed the request, and its
\* denial answers Forbidden.
C8_AdmissionOrder ==
    \A p \in Procs :
       LET r == req[p]
           asked == Range(r.calls)
       IN  /\ Len(r.calls) <= 2
           /\ Len(r.calls) >= 1 => r.calls[1] = "rateLimit"
           /\ Len(r.calls) = 2 => r.calls[2] = "hasPermission"
           /\ "hasPermission" \in asked => r.rlOk
           /\ (r.pc \notin {"idle", "rate"} /\ ~r.rlOk) =>
                 r.result = "RateLimited" /\ r.pc = "done"
           /\ r.result = "RateLimited" => ~r.rlOk
           /\ (r.pc \notin {"idle", "rate", "perm"} /\ r.rlOk /\ ~r.capable) =>
                 r.result = "Forbidden" /\ r.pc = "done"
           /\ r.result = "Forbidden" => r.rlOk /\ ~r.capable

\* A bulk delete by a caller without the capability was refused by the
\* limiter, and hasPermission was never asked.
C8_Witness ==
    \E p \in Procs :
       /\ req[p].op = "DELETE" /\ req[p].result = "RateLimited"
       /\ ~req[p].capable /\ req[p].calls = <<"rateLimit">>

\* C9: a request refused with RateLimited, Forbidden or QuotaExceeded leaves
\* both tables exactly as it found them.
C9_DeniedLeavesStore ==
    \A p \in Procs :
       req[p].result \in Denied =>
          schedules = req[p].preS /\ executions = req[p].preE

\* A create request was refused at the limit.
C9_Witness ==
    \E p \in Procs :
       /\ req[p].op = "POST" /\ req[p].result = "QuotaExceeded"
       /\ req[p].existing = MaxSchedules

\* <local>@<domain>.<tld>: one "@", no white space, a dot after the "@", and
\* text before the "@", between the "@" and the dot, and after the dot.
WellFormedAddress(e) ==
    \E i, j \in 1..Len(e) :
       /\ e[i] = "@" /\ e[j] = "."
       /\ 1 < i /\ i + 1 < j /\ j < Len(e)
       /\ \A k \in 1..Len(e) : e[k] # " " /\ (e[k] = "@" => k = i)

\* C10: a create request whose recipients list is empty or holds an address
\* that is not of the form <local>@<domain>.<tld> ends with ValidationError
\* and writes no row; with a non-empty list of well-formed addresses and
\* otherwise valid input it does not end with ValidationError.
C10_RecipientsValidated ==
    \A p \in Procs :
       LET r == req[p]
           b == r.body
           bad == \/ b.recipients = <<>>
                  \/ \E i \in 1..Len(b.recipients) :
                        ~WellFormedAddress(b.recipients[i])
       IN  (/\ r.op = "POST"
            /\ r.pc \in {"count", "create", "done"}
            /\ r.result \notin {"RateLimited", "Forbidden"}
            /\ "recipients" \in b.has)
           => /\ bad => r.result = "ValidationError" /\ schedules = r.preS
              /\ (/\ ~bad
                  /\ ~FalsyStr(b, "name", b.name)
                  /\ ~FalsyStr(b, "frequency", b.frequency)
                  /\ ~FalsyStr(b, "format", b.format)
                  /\ b.format \in {"csv", "xlsx", "json", "pdf"})
                 => r.result # "ValidationError"

\* A list of two well-formed addresses passed validation and was stored.
C10_Witness ==
    \E p \in Procs :
       /\ req[p].op = "POST" /\ req[p].result = "Ok"
       /\ req[p].body.recipients = <<Good2, Good>>
       /\ \E row \in schedules :
             row.id = req[p].newId /\ row.recipients = <<Good2, Good>>


\* The rows written by create requests (the seeded rows have ids below 201).
CreatedRows == {r \in schedules : r.id >= 201}

\* A create request of slot p got past admission and field validation.
PastValidation(p) ==
    /\ req[p].op = "POST"
    /\ req[p].pc \in {"count", "create", "done"}
    /\ req[p].result \notin {"RateLimited", "Forbidden", "ValidationError"}

\* C11: every row written by a create request has a non-empty name, a
\* frequency among daily, weekly, monthly and a format among csv, xlsx, json,
\* pdf; a create request with another frequency or format is refused with
\* ValidationError.
C11_RowsValidated ==
    /\ \A r \in CreatedRows :
          /\ r.name # ""
          /\ r.frequency \in {"daily", "weekly", "monthly"}
          /\ r.format \in {"csv", "xlsx", "json", "pdf"}
    /\ \A p \in Procs :
          PastValidation(p) =>
             /\ req[p].body.frequency \in {"daily", "weekly", "monthly"}
             /\ req[p].body.format \in {"csv", "xlsx", "json", "pdf"}

\* C12: every row written by a create request has dayOfWeek in 0..6 exactly
\* when its frequency is weekly and null otherwise, and dayOfMonth in 1..31
\* exactly when its frequency is monthly and null otherwise; a weekly
\* schedule created with dayOfWeek = 0 is stored with dayOfWeek = 0.
C12_DayFieldsMatchFrequency ==
    /\ \A r \in CreatedRows :
          /\ IF r.frequency = "weekly" THEN r.dayOfWeek \in 0..6
             ELSE r.dayOfWeek = Null
          /\ IF r.frequency = "monthly" THEN r.dayOfMonth \in 1..31
             ELSE r.dayOfMonth = Null
    /\ \A p \in Procs :
          (/\ req[p].op = "POST" /\ req[p].result = "Ok"
           /\ req[p].body.frequency = "weekly"
           /\ "dayOfWeek" \in req[p].body.has /\ req[p].body.dayOfWeek = 0)
          => \A r \in schedules : r.id = req[p].newId => r.dayOfWeek = 0


\* C13: a bulk toggle that reached the store and met no store error succeeds
\* and leaves every listed row of the caller's tenant with the negation of
\* the isActive it had (so that the same toggle applied twice restores it).
C13_ToggleFlipsEachRow ==
    \A p \in Procs :
       LET r == req[p]
       IN  (/\ r.op = "PATCH" /\ r.pc = "done"
            /\ r.action = "toggleActive" /\ r.idsKind = "array"
            /\ r.result \notin {"RateLimited", "Forbidden"}
            /\ r.fault # "store"
            /\ \E row \in RowsOf(r.preS, r.tenantId) :
                  row.id \in Range(r.scheduleIds))
           => /\ r.result = "Ok"
              /\ \A row \in RowsOf(r.preS, r.tenantId) :
                    row.id \in Range(r.scheduleIds) =>
                       [row EXCEPT !.isActive = ~@] \in schedules


\* C14: a listing for tenant T holds each schedule of T once and no other,
\* newest first by createdAt, each with the number of execution rows that
\* reference it, and leaves both tables as they were.
C14_ListingOfTenant ==
    \A p \in Procs :
       LET r == req[p]
           l == r.list
           mine == RowsOf(schedules, r.tenantId)
       IN  (r.op = "GET" /\ r.result = "Ok")
           => /\ {l[i].row : i \in 1..Len(l)} = mine
              /\ Len(l) = Cardinality(mine)
              /\ \A i, j \in 1..Len(l) :
                    i < j => l[i].row.createdAt >= l[j].row.createdAt
              /\ \A i \in 1..Len(l) :
                    l[i].executionCount =
                       Cardinality({e \in executions :
                                      e.scheduleId = l[i].row.id})
              /\ schedules = r.preS /\ executions = r.preE

\* A listing of t1 taken after a create: the new row comes first, a schedule
\* with two executions is annotated with 2, and the other tenant has rows.
C14_Witness ==
    \E p \in Procs :
       /\ req[p].op = "GET" /\ req[p].result = "Ok" /\ req[p].tenantId = "t1"
       /\ Len(req[p].list) >= 2
       /\ req[p].list[1].row.id >= 201
       /\ \E i \in 1..Len(req[p].list) : req[p].list[i].executionCount = 2
       /\ RowsOf(schedules, "t2") # {}


\* C15: a bulk delete whose id list names some existing schedules and some
\* ids of no row is a partial success: every named schedule that existed is
\* gone, the answer is a success, and deletedCount is the number of schedule
\* rows removed.
C15_PartialDelete ==
    \A p \in Procs :
       LET r == req[p]
           named == TokenIds(r.ids)
           found == {row \in r.preS : row.id \in named}
       IN  (/\ r.op = "DELETE" /\ r.pc = "done" /\ r.fault = "none"
            /\ r.result \notin {"RateLimited", "Forbidden"}
            /\ found # {}
            /\ \E id \in named : \A row \in r.preS : row.id # id)
           => /\ r.result = "Ok"
              /\ found \cap schedules = {}
              /\ r.count = Cardinality(r.preS \ schedules)
              /\ r.count = Cardinality(found)

\* ?ids=2,0 has been answered: schedule 2 existed and is gone, 0 named no row.
C15_Witness ==
    \E p \in Procs :
       /\ req[p].op = "DELETE" /\ req[p].result = "Ok"
       /\ req[p].idsParam = <<2, Comma, 0>>
       /\ req[p].count = 1
       /\ \E row \in req[p].preS : row.id = 2
       /\ \A row \in schedules : row.id # 2


\* The executions of schedule id that are in flight.
PendingOf(id) == {e \in executions : e.scheduleId = id /\ e.status = "pending"}

\* C16: each schedule has at most one pending execution in every reachable
\* state; a selection step that finds its schedule already pending skips it
\* and starts no execution.
C16_OnePendingPerSchedule ==
    /\ [](\A r \in schedules : Cardinality(PendingOf(r.id)) <= 1)
    /\ [][\A p \in Procs :
            (/\ req[p].pc = "select" /\ req'[p].pc # "select"
             /\ PendingOf(req[p].target) # {})
            => /\ req'[p].result = "Skipped"
               /\ executions' = executions]_vars

\* Two iterations observed the same schedule: one marked it pending and is
\* delivering, the other found it pending and skipped it.
C16_Witness ==
    \E p, q \in Procs :
       /\ p # q
       /\ req[p].op = "TICK" /\ req[q].op = "TICK"
       /\ req[p].target = req[q].target
       /\ req[p].pc = "deliver"
       /\ \E e \in PendingOf(req[p].target) : e.id = req[p].execId
       /\ req[q].result = "Skipped"

Terminal(e) == e.status \in {"succeeded", "failed"}

\* C17: an execution's status only moves from pending to succeeded or to
\* failed; an execution is terminal exactly when completedAt is set, a
\* terminal execution never changes again, and recordResult on it answers
\* InvalidStateTransition.
C17_TerminalIsFinal ==
    /\ [](\A e \in executions :
            /\ e.status \in {"pending", "succeeded", "failed"}
            /\ Terminal(e) <=> e.completedAt # Null)
    /\ [][/\ \A e \in executions, f \in executions' :
               (e.id = f.id /\ f # e) => (e.status = "pending" /\ Terminal(f))
          /\ \A p \in Procs :
               (/\ req[p].pc \in {"deliver", "late"}
                /\ req'[p].pc # req[p].pc
                /\ \E e \in executions : e.id = req[p].execId /\ Terminal(e))
               => /\ req'[p].result = "InvalidStateTransition"
                  /\ executions' = executions]_vars

\* The answer of a timed-out delivery came late: the execution stays failed
\* as the timeout left it and the late recordResult was refused.
C17_Witness ==
    \E p \in Procs :
       /\ req[p].op = "TICK" /\ req[p].pc = "done"
       /\ req[p].result = "InvalidStateTransition"
       /\ \E e \in executions :
             /\ e.id = req[p].execId /\ e.status = "failed"
             /\ e.completedAt # Null


\* The body fails one of the checks of route.ts:94-111.
InvalidBody(b) == MissingRequired(b) \/ InvalidFormat(b) \/ InvalidRecipients(b)

\* A create request that passed the rate limit and the capability check and
\* has been answered.
AdmittedCreate(p) ==
    /\ req[p].op = "POST" /\ req[p].pc = "done"
    /\ req[p].rlOk /\ req[p].capable

ToggleAlone(r, st) ==
    IF r.result = "Ok"
    THEN <<{IF row.id \in Range(r.scheduleIds) THEN PatchData(r.mode, row)
            ELSE row : row \in st[1]}, st[2]>>
    ELSE st

\* A delete that was answered Ok removed the executions and the schedules
\* of its ids; one stopped by a store error removed nothing or the
\* executions only; a refused one removed nothing.
DeleteAlone(r, st) ==
    LET ids == TokenIds(r.ids)
        lessE == {e \in st[2] : e.scheduleId \notin ids}
        lessS == {row \in st[1] : row.id \notin ids}
    IN  IF r.result = "Ok" THEN {<<lessS, lessE>>}
        ELSE IF r.fault = "store" THEN {st, <<st[1], lessE>>}
        ELSE {st}

BulkAlone(r, st) ==
    IF r.op = "PATCH" THEN {ToggleAlone(r, st)} ELSE DeleteAlone(r, st)

\* The stores that running a, then b, can leave.
Serially(a, b, st) == UNION {BulkAlone(b, m) : m \in BulkAlone(a, st)}

\* The tables as they were before the first request.
FirstStores ==
    {<<SeedSchedules(n), SeedExecutions>> :
        n \in {MaxSchedules - 1, MaxSchedules}}

\* C19: when two bulk requests (toggle and/or delete) on overlapping id
\* lists have run with their store steps interleaved in any way, the two
\* tables are as one of the two serial orders leaves them.
C19_BulkSerializable ==
    \A p, q \in Procs :
       (/\ p # q /\ started = 2
        /\ req[p].pc = "done" /\ req[q].pc = "done"
        /\ req[p].op \in {"PATCH", "DELETE"}
        /\ req[q].op \in {"PATCH", "DELETE"}
        /\ <<req[p].preS, req[p].preE>> \in FirstStores)
       => <<schedules, executions>>
             \in Serially(req[p], req[q], <<req[p].preS, req[p].preE>>)
                   \cup Serially(req[q], req[p], <<req[p].preS, req[p].preE>>)

\* A toggle of schedules 1 and 2 ran between the two deletions of a delete
\* of schedules 1 and 101: it arrived after the executions were gone and
\* matched both rows; in the end schedule 1 is gone and schedule 2 changed.
C19_Witness ==
    \E p, q \in Procs :
       /\ p # q /\ started = 2
       /\ req[p].op = "PATCH" /\ req[p].result = "Ok"
       /\ req[p].scheduleIds = <<1, 2>> /\ req[p].count = 2
       /\ req[q].op = "DELETE" /\ req[q].result = "Ok"
       /\ req[q].idsParam = <<1, Comma, 101>>
       /\ <<req[q].preS, req[q].preE>> \in FirstStores
       /\ req[p].preS = req[q].preS /\ req[p].preE # req[q].preE
       /\ \A row \in schedules : row.id # 1
       /\ \E row \in schedules : row.id = 2 /\ row \notin req[p].preS


\* C20: a row created by a create request carries the tenantId and userId of
\* the caller's tenant context, whatever the body carried, and a bulk toggle
\* leaves the id, tenantId and userId of every row as they were.
C20_OwnershipFixed ==
    \A p \in Procs :
       LET r == req[p]
       IN  /\ (r.op = "POST" /\ r.result = "Ok")
              => \E row \in schedules :
                    /\ row.id = r.newId
                    /\ row.tenantId = r.tenantId
                    /\ row.userId = r.userId
                    /\ \A o \in schedules : o.id = row.id => o = row
           /\ (r.op = "PATCH" /\ r.pc = "done")
              => /\ Cardinality(schedules) = Cardinality(r.preS)
                 /\ \A o \in r.preS :
                       \E row \in schedules :
                          /\ row.id = o.id
                          /\ row.tenantId = o.tenantId
                          /\ row.userId = o.userId

\* A caller of t1 sent a body carrying tenantId t2 and userId u2; the row
\* created belongs to t1 and u1.
C20_Witness ==
    \E p \in Procs :
       /\ req[p].op = "POST" /\ req[p].result = "Ok"
       /\ req[p].tenantId = "t1"
       /\ {"tenantId", "userId"} \subseteq req[p].body.has
       /\ req[p].body.tenantId = "t2" /\ req[p].body.userId = "u2"
       /\ \E row \in schedules :
             row.id = req[p].newId /\ row.tenantId = "t1" /\ row.userId = "u1"


\* The query string of a delete request names no schedule id: the ids
\* parameter is absent, or it is there and spells no id (?ids=).
NamesNoIds(r) ==
    LET tokens == ParseIds(r.hasParam, r.idsParam)
    IN  \A i \in 1..Len(tokens) : Len(tokens[i]) = 0

\* C21: a bulk request that names no schedule ids is refused and the store
\* is left alone: an admitted delete with no ids is answered 'No schedule
\* IDs provided', an admitted PATCH whose action is not toggleActive or
\* whose scheduleIds is not a list is answered 'Invalid action', and in both
\* cases the two tables are as the request found them and no store call
\* was made.
C21_NoIdsRejected ==
    \A p \in Procs :
       LET r == req[p]
       IN  /\ (/\ r.op = "DELETE" /\ r.pc = "done"
               /\ r.rlOk /\ r.capable
               /\ NamesNoIds(r))
              => /\ r.result = "NoIds"
                 /\ schedules = r.preS /\ executions = r.preE
           /\ (/\ r.op = "PATCH" /\ r.pc = "done"
               /\ r.rlOk /\ r.capable
               /\ (r.action # "toggleActive" \/ r.idsKind # "array"))
              => /\ r.result = "InvalidAction"
                 /\ schedules = r.preS /\ executions = r.preE

====
